---- MODULE Spec2Model ----
(***************************************************************************)
(* jwtify: a service worker that injects JWTs into requests for static     *)
(* Opencast files.  The model follows the latest revision of the library   *)
(* (Context, Cache, expOfJwt, parsePath, onFetch).                         *)
(*                                                                         *)
(* Time is the wall clock Date.now() in milliseconds.  `exp` claims and    *)
(* cacheMinTokenTimeLeft are in seconds, as in the source, so every        *)
(* comparison `exp < Date.now() / 1000 + cacheMinTokenTimeLeft` is written *)
(* multiplied by 1000 to stay in the integers.                             *)
(***************************************************************************)
EXTENDS Integers, Sequences, FiniteSets, TLC

VARIABLES
    ctx,            \* `const ctx = new Context(configIn)` in setUpServiceWorker
    parse,          \* the last call of parsePath: its path and what it returned
    config,         \* Context.config (FullConfig), fixed after construction
    now,            \* Date.now(), in ms
    tokens,         \* Cache.tokens: Map<EventId, {exp, token}>
    purgePlanned,   \* Cache.purgePlanned
    purgeTimers,    \* the pending purge setTimeouts: the instant each is due
    batches,        \* the batch objects created so far ({task, eventIds})
    batch,          \* Context.batch: NoBatch (null) or the batch in the slot
    calls,          \* invocations of config.getJwts, in order of invocation
    microtasks,     \* callers whose awaited promise resolved, not yet resumed
    req,            \* the fetch events / getJwt callers, in order of arrival
    last            \* outcome of the last call of a Cache method

vars == <<ctx, parse, config, now, tokens, purgePlanned, purgeTimers, batches,
          batch, calls, microtasks, req, last>>

-----------------------------------------------------------------------------
(* Bounds of the model *)

MaxTicks == 13
MaxReq == 3
MaxPath == 9

-----------------------------------------------------------------------------
(* Values *)

\* `null` (Jwt | null, ParsedPath | null)
Null == [null |-> TRUE]

\* Context.batch = null
NoBatch == 0

\* Event ids are strings, modelled as sequences of characters
EventIds == {<<"x">>, <<"y">>}

\* DEFAULT_CONFIG
DefaultPathPrefixes == << <<"/", "s", "t", "a", "t", "i", "c", "/">> >>
DefaultCacheMinTokenTimeLeft == 5
DefaultBatchWindow == 3

\* The buffer planPurge adds to the timer delay, in ms
PurgeBufferMs == 500

\* The clock advances in steps of this many ms
TickMs == PurgeBufferMs
MaxNow == MaxTicks * TickMs
LeapMs == 1000 * (10 - DefaultCacheMinTokenTimeLeft)

\* Decoded JWT payloads: with a numeric `exp`, with an `exp` that is not a
\* number, and without `exp`
Exps == {4, 6, 10}
NumPayloads == {[exp |-> [type |-> "number", val |-> e]] : e \in Exps}
BadPayloads == {[exp |-> [type |-> "string", val |-> 0]], [sub |-> "user"]}

\* A JWT: its payload part and its signature part
GoodJwts == [payload : NumPayloads, sig : {"A", "B"}]
BadJwts == [payload : BadPayloads, sig : {"A"}]
Jwts == GoodJwts \cup BadJwts

Min(S) == CHOOSE m \in S : \A x \in S : m <= x

\* the sequence s without its k-th element
RemoveAt(s, k) == SubSeq(s, 1, k - 1) \o SubSeq(s, k + 1, Len(s))

\* Map.delete
MapDelete(m, k) == [j \in DOMAIN m \ {k} |-> m[j]]
\* Map.set
MapSet(m, k, v) == [j \in DOMAIN m \cup {k} |-> IF j = k THEN v ELSE m[j]]
\* Map.get(k) ?? null
MapGet(m, k) == IF k \in DOMAIN m THEN m[k] ELSE Null

EmptyMap == [j \in {} |-> Null]

\* parsePath has not been called
NoParse == [called |-> FALSE]

\* A JS number as configIn can carry it: finite, or NaN, Infinity, -Infinity
Num(n) == [kind |-> "finite", val |-> n]
NaN == [kind |-> "NaN", val |-> 0]
Infinity == [kind |-> "Infinity", val |-> 0]
NegInfinity == [kind |-> "-Infinity", val |-> 0]

\* x < 0.0
JsNegative(x) == x.kind = "-Infinity" \/ (x.kind = "finite" /\ x.val < 0)
\* Number.isNaN(x)
JsIsNaN(x) == x.kind = "NaN"
\* Number.isFinite(x)
JsIsFinite(x) == x.kind = "finite"

\* String.endsWith
EndsWith(s, p) ==
    Len(p) <= Len(s) /\ SubSeq(s, Len(s) - Len(p) + 1, Len(s)) = p

-----------------------------------------------------------------------------
(* expOfJwt *)

\* [threw |-> TRUE] when the payload has no numeric `exp`
expOfJwt(jwt) ==
    IF ~("exp" \in DOMAIN jwt.payload) \/ jwt.payload.exp.type # "number"
    THEN [threw |-> TRUE, exp |-> 0]
    ELSE [threw |-> FALSE, exp |-> jwt.payload.exp.val]

-----------------------------------------------------------------------------
(* class Cache *)

IsStale_le(entry, t, minLeft) == 1000 * entry.exp <= t + 1000 * minLeft

\* entry.exp < Date.now() / 1000 + this.cacheMinTokenTimeLeft
IsStale(entry, t, minLeft) == 1000 * entry.exp < t + 1000 * minLeft

CacheGet_miss(toks, eventId, t, minLeft) ==
    IF eventId \in DOMAIN toks /\ IsStale(toks[eventId], t, minLeft)
    THEN [ret |-> Null, tokens |-> MapDelete(toks, eventId)]
    ELSE [ret |-> Null, tokens |-> toks]

\* Cache.get: the returned value and the map afterwards
CacheGet(toks, eventId, t, minLeft) ==
    IF eventId \notin DOMAIN toks
    THEN [ret |-> Null, tokens |-> toks]
    ELSE IF IsStale(toks[eventId], t, minLeft)
         THEN [ret |-> Null, tokens |-> MapDelete(toks, eventId)]
         ELSE [ret |-> toks[eventId].token, tokens |-> toks]

purgeStaleEntries_min(toks, t, minLeft) ==
    [k \in {j \in DOMAIN toks :
               \/ ~IsStale(toks[j], t, minLeft)
               \/ \E i \in DOMAIN toks : toks[i].exp < toks[j].exp} |-> toks[k]]

\* Cache.purgeStaleEntries: the map afterwards
purgeStaleEntries(toks, t, minLeft) ==
    [k \in {j \in DOMAIN toks : ~IsStale(toks[j], t, minLeft)} |-> toks[k]]

PurgeDue_latest(toks, t, minLeft) ==
    LET nextExp == CHOOSE e \in {toks[k].exp : k \in DOMAIN toks} :
                       \A k \in DOMAIN toks : toks[k].exp <= e
        msTillStale == 1000 * nextExp - t - 1000 * minLeft
    IN  t + msTillStale + PurgeBufferMs

\* The instant for which planPurge requests its timer: now plus the delay
\* it passes to setTimeout.  A delay below 0 asks for an instant in the
\* past, and the callback runs as soon as it can, as with delay 0.
PurgeDue(toks, t, minLeft) ==
    LET nextExp == Min({toks[k].exp : k \in DOMAIN toks})
        msTillStale == 1000 * nextExp - t - 1000 * minLeft
    IN  t + msTillStale + PurgeBufferMs

planPurge_noGuard(toks, planned, timers, t, minLeft) ==
    [purgePlanned |-> TRUE,
     purgeTimers |-> Append(timers, PurgeDue(toks, t, minLeft))]

\* Cache.planPurge: purgePlanned and the pending timers afterwards
planPurge(toks, planned, timers, t, minLeft) ==
    IF ~planned
    THEN [purgePlanned |-> TRUE,
          purgeTimers |-> Append(timers, PurgeDue(toks, t, minLeft))]
    ELSE [purgePlanned |-> planned, purgeTimers |-> timers]

AddEntry_le(toks, eventId, token, exp) ==
    IF eventId \in DOMAIN toks
    THEN IF toks[eventId].exp <= exp
         THEN MapSet(toks, eventId, [exp |-> exp, token |-> token])
         ELSE toks
    ELSE MapSet(toks, eventId, [exp |-> exp, token |-> token])

\* The entry Cache.add leaves under eventId
AddEntry(toks, eventId, token, exp) ==
    IF eventId \in DOMAIN toks
    THEN IF toks[eventId].exp < exp
         THEN MapSet(toks, eventId, [exp |-> exp, token |-> token])
         ELSE toks
    ELSE MapSet(toks, eventId, [exp |-> exp, token |-> token])

CacheAdd_late(toks, planned, timers, eventId, token, t, minLeft) ==
    LET e == expOfJwt(token)
        toks2 == AddEntry(toks, eventId, token, e.exp)
        p == planPurge(toks2, planned, timers, t, minLeft)
    IN  [threw |-> e.threw, tokens |-> toks2,
         purgePlanned |-> p.purgePlanned, purgeTimers |-> p.purgeTimers]

CacheAdd_resched(toks, planned, timers, eventId, token, t, minLeft) ==
    LET e == expOfJwt(token) IN
    IF e.threw
    THEN [threw |-> TRUE, tokens |-> toks,
          purgePlanned |-> planned, purgeTimers |-> timers]
    ELSE LET toks2 == AddEntry(toks, eventId, token, e.exp)
         IN  [threw |-> FALSE, tokens |-> toks2, purgePlanned |-> TRUE,
              purgeTimers |-> <<PurgeDue(toks2, t, minLeft)>>]

\* Cache.add: whether it threw, and the cache afterwards
CacheAdd(toks, planned, timers, eventId, token, t, minLeft) ==
    LET e == expOfJwt(token) IN
    IF e.threw
    THEN [threw |-> TRUE, tokens |-> toks,
          purgePlanned |-> planned, purgeTimers |-> timers]
    ELSE LET toks2 == AddEntry(toks, eventId, token, e.exp)
             p == planPurge(toks2, planned, timers, t, minLeft)
         IN  [threw |-> FALSE, tokens |-> toks2,
              purgePlanned |-> p.purgePlanned, purgeTimers |-> p.purgeTimers]

-----------------------------------------------------------------------------
(* parsePath *)

\* String.startsWith
StartsWith(s, p) == Len(p) <= Len(s) /\ SubSeq(s, 1, Len(p)) = p

\* String.slice(n)
Slice(s, n) == SubSeq(s, n + 1, Len(s))

\* String.split(sep)
RECURSIVE Split(_, _)
Split(s, sep) ==
    IF \A i \in 1..Len(s) : s[i] # sep
    THEN << s >>
    ELSE LET k == Min({i \in 1..Len(s) : s[i] = sep})
         IN  << SubSeq(s, 1, k - 1) >> \o Split(SubSeq(s, k + 1, Len(s)), sep)

\* Array.join(sep)
RECURSIVE Join(_, _)
Join(parts, sep) ==
    IF Len(parts) = 0 THEN <<>>
    ELSE IF Len(parts) = 1 THEN parts[1]
    ELSE parts[1] \o << sep >> \o Join(Tail(parts), sep)

\* parsePath: null or the ParsedPath
parsePath(path, cfg) ==
    LET matching == {i \in 1..Len(cfg.pathPrefixes) :
                        StartsWith(path, cfg.pathPrefixes[i])}
    IN  IF matching = {} THEN Null
        ELSE LET prefix == cfg.pathPrefixes[Min(matching)] IN
             IF Len(prefix) = 0 THEN Null
             ELSE LET withoutPrefix == Slice(path, Len(prefix) + 1)
                      parts == Split(withoutPrefix, "/")
                  IN  IF Len(parts) < 4 THEN Null
                      ELSE [prefix |-> prefix,
                            org |-> parts[1],
                            channel |-> parts[2],
                            eventId |-> parts[3],
                            suffix |-> Join(SubSeq(parts, 4, Len(parts)), "/")]

\* the call of parsePath(path, config)
ParsePathCall(path) ==
    /\ ~parse.called
    /\ parse' = [called |-> TRUE, path |-> path,
                 ret |-> parsePath(path, config)]
    /\ UNCHANGED <<ctx, config, now, tokens, purgePlanned, purgeTimers,
                   batches, batch, calls, microtasks, req, last>>

-----------------------------------------------------------------------------
(* class Context: the constructor, and setUpServiceWorker around it *)

\* the checks of the constructor: "none" or the check that throws
ConfigError(cfg) ==
    IF \E i \in 1..Len(cfg.pathPrefixes) :
          \/ ~StartsWith(cfg.pathPrefixes[i], <<"/">>)
          \/ ~EndsWith(cfg.pathPrefixes[i], <<"/">>)
    THEN "pathPrefixes"
    ELSE IF JsNegative(cfg.batchWindow)
    THEN "batchWindow negative"
    ELSE IF JsIsNaN(cfg.batchWindow) \/ ~JsIsFinite(cfg.batchWindow)
    THEN "batchWindow not finite"
    ELSE "none"

\* const ctx = new Context(configIn): config holds {...DEFAULT_CONFIG,
\* ...configIn}; a throw leaves setUpServiceWorker before it adds a listener
NewContext ==
    /\ ctx = "none"
    /\ ctx' = IF ConfigError(config) = "none" THEN "constructed" ELSE "threw"
    /\ UNCHANGED <<parse, config, now, tokens, purgePlanned, purgeTimers,
                   batches, batch, calls, microtasks, req, last>>

\* self.addEventListener("fetch", e => onFetch(e, ctx))
AddFetchListener ==
    /\ ctx = "constructed"
    /\ ctx' = "listening"
    /\ UNCHANGED <<parse, config, now, tokens, purgePlanned, purgeTimers,
                   batches, batch, calls, microtasks, req, last>>

-----------------------------------------------------------------------------
(* class Context: getJwt and getJwtsCallback *)

\* an invocation of config.getJwts by getJwtsCallback; batchNo is the batch
\* whose timer made it (0: made by getJwt itself, batching disabled); jwts is
\* the Map getJwtsCallback returns once the invocation has settled
NewCall(batchNo, eventIds) ==
    [batchNo |-> batchNo, eventIds |-> eventIds, status |-> "pending",
     jwts |-> EmptyMap]

\* a caller of getJwt: a fetch event going through onFetch, or a direct call
NewReq(kind, url, eventId) ==
    [kind |-> kind, url |-> url, eventId |-> eventId, pc |-> "start",
     batchNo |-> 0, call |-> 0, jwt |-> Null, dispatch |-> "none"]

getJwtStart_noAdd(eventId) ==
    IF config.batchWindow <= 0
    THEN [pc |-> "awaitCall", batchNo |-> 0, call |-> Len(calls) + 1,
          batch |-> batch, batches |-> batches,
          calls |-> Append(calls, NewCall(0, {eventId}))]
    ELSE IF batch # NoBatch
    THEN [pc |-> "awaitBatch", batchNo |-> batch, call |-> 0,
          batch |-> batch, batches |-> batches, calls |-> calls]
    ELSE [pc |-> "awaitBatch", batchNo |-> Len(batches) + 1, call |-> 0,
          batch |-> Len(batches) + 1,
          batches |-> Append(batches, [eventIds |-> {eventId},
                                       timer |-> TRUE, call |-> 0]),
          calls |-> calls]

getJwtStart_lt(eventId) ==
    IF config.batchWindow < 0
    THEN [pc |-> "awaitCall", batchNo |-> 0, call |-> Len(calls) + 1,
          batch |-> batch, batches |-> batches,
          calls |-> Append(calls, NewCall(0, {eventId}))]
    ELSE IF batch # NoBatch
    THEN [pc |-> "awaitBatch", batchNo |-> batch, call |-> 0,
          batch |-> batch,
          batches |-> [batches EXCEPT ![batch].eventIds = @ \cup {eventId}],
          calls |-> calls]
    ELSE [pc |-> "awaitBatch", batchNo |-> Len(batches) + 1, call |-> 0,
          batch |-> Len(batches) + 1,
          batches |-> Append(batches, [eventIds |-> {eventId},
                                       timer |-> TRUE, call |-> 0]),
          calls |-> calls]

getJwtStart_alwaysNew(eventId) ==
    IF config.batchWindow <= 0
    THEN [pc |-> "awaitCall", batchNo |-> 0, call |-> Len(calls) + 1,
          batch |-> batch, batches |-> batches,
          calls |-> Append(calls, NewCall(0, {eventId}))]
    ELSE IF FALSE
    THEN [pc |-> "awaitBatch", batchNo |-> batch, call |-> 0,
          batch |-> batch,
          batches |-> [batches EXCEPT ![batch].eventIds = @ \cup {eventId}],
          calls |-> calls]
    ELSE [pc |-> "awaitBatch", batchNo |-> Len(batches) + 1, call |-> 0,
          batch |-> Len(batches) + 1,
          batches |-> Append(batches, [eventIds |-> {eventId},
                                       timer |-> TRUE, call |-> 0]),
          calls |-> calls]

\* Context.getJwt up to its await: where the caller waits, and the batch
\* slot, the batch objects and the issuer invocations afterwards
getJwtStart(eventId) ==
    IF config.batchWindow <= 0
    THEN [pc |-> "awaitCall", batchNo |-> 0, call |-> Len(calls) + 1,
          batch |-> batch, batches |-> batches,
          calls |-> Append(calls, NewCall(0, {eventId}))]
    ELSE IF batch # NoBatch
    THEN [pc |-> "awaitBatch", batchNo |-> batch, call |-> 0,
          batch |-> batch,
          batches |-> [batches EXCEPT ![batch].eventIds = @ \cup {eventId}],
          calls |-> calls]
    ELSE [pc |-> "awaitBatch", batchNo |-> Len(batches) + 1, call |-> 0,
          batch |-> Len(batches) + 1,
          batches |-> Append(batches, [eventIds |-> {eventId},
                                       timer |-> TRUE, call |-> 0]),
          calls |-> calls]

Waiters_first(c) ==
    LET all == SelectSeq([i \in 1..Len(req) |-> i],
                  LAMBDA i : \/ req[i].pc = "awaitCall" /\ req[i].call = c
                             \/ /\ req[i].pc = "awaitBatch"
                                /\ calls[c].batchNo # 0
                                /\ req[i].batchNo = calls[c].batchNo)
    IN  IF all = <<>> THEN <<>> ELSE << all[1] >>

\* the callers suspended on the promise that invocation c settles, in the
\* order in which they started to await
Waiters(c) ==
    SelectSeq([i \in 1..Len(req) |-> i],
              LAMBDA i : \/ req[i].pc = "awaitCall" /\ req[i].call = c
                         \/ /\ req[i].pc = "awaitBatch"
                            /\ calls[c].batchNo # 0
                            /\ req[i].batchNo = calls[c].batchNo)

CallOf_slot(i) ==
    IF req[i].pc = "awaitCall" THEN req[i].call
    ELSE Len(calls)

\* the invocation whose result the suspended caller i awaits: its own one, or
\* the one made by the timer of the batch it holds (`batch.task`)
CallOf(i) ==
    IF req[i].pc = "awaitCall" THEN req[i].call
    ELSE batches[req[i].batchNo].call

getJwtReturn_any(i) ==
    LET jwts == calls[CallOf(i)].jwts IN
    IF req[i].eventId \in DOMAIN jwts THEN jwts[req[i].eventId]
    ELSE IF jwts = EmptyMap THEN Null
    ELSE jwts[CHOOSE id \in DOMAIN jwts : TRUE]

\* jwts.get(eventId) ?? null, for the caller i being resumed
getJwtReturn(i) == MapGet(calls[CallOf(i)].jwts, req[i].eventId)

\* the tokens the issuer hands out, and the Maps it may resolve with
IssuerJwts ==
    {[payload |-> [exp |-> [type |-> "number", val |-> 10]], sig |-> "A"],
     [payload |-> [exp |-> [type |-> "number", val |-> 4]], sig |-> "B"],
     [payload |-> [sub |-> "user"], sig |-> "A"]}

Responses(eventIds) ==
    UNION {[ids -> IssuerJwts] : ids \in SUBSET eventIds}

\* a direct call of ctx.getJwt(eventId)
GetJwtCall(eventId) ==
    /\ microtasks = <<>>
    /\ Len(req) < MaxReq
    /\ LET s == getJwtStart(eventId) IN
       /\ req' = Append(req, [NewReq("getJwt", Null, eventId) EXCEPT
                                 !.pc = s.pc, !.batchNo = s.batchNo,
                                 !.call = s.call])
       /\ batch' = s.batch
       /\ batches' = s.batches
       /\ calls' = s.calls
    /\ UNCHANGED <<ctx, parse, config, now, tokens, purgePlanned, purgeTimers,
                   microtasks, last>>

BatchTimerFire_noReset(b) ==
    /\ microtasks = <<>>
    /\ b \in 1..Len(batches)
    /\ batches[b].timer
    /\ batch' = batch
    /\ calls' = Append(calls, NewCall(b, batches[b].eventIds))
    /\ batches' = [batches EXCEPT ![b].timer = FALSE, ![b].call = Len(calls) + 1]
    /\ UNCHANGED <<ctx, parse, config, now, tokens, purgePlanned, purgeTimers,
                   microtasks, req, last>>

\* the callback getJwt passed to setTimeout when it created batch b
BatchTimerFire(b) ==
    /\ microtasks = <<>>
    /\ b \in 1..Len(batches)
    /\ batches[b].timer
    /\ batch' = NoBatch
    /\ calls' = Append(calls, NewCall(b, batches[b].eventIds))
    /\ batches' = [batches EXCEPT ![b].timer = FALSE, ![b].call = Len(calls) + 1]
    /\ UNCHANGED <<ctx, parse, config, now, tokens, purgePlanned, purgeTimers,
                   microtasks, req, last>>

\* the promise of invocation c of config.getJwts resolves with the Map resp
IssuerResolve(c, resp) ==
    /\ microtasks = <<>>
    /\ c \in 1..Len(calls)
    /\ calls[c].status = "pending"
    /\ resp \in Responses(calls[c].eventIds)
    /\ calls' = [calls EXCEPT ![c].status = "resolved", ![c].jwts = resp]
    /\ microtasks' = Waiters(c)
    /\ UNCHANGED <<ctx, parse, config, now, tokens, purgePlanned, purgeTimers, batches,
                   batch, req, last>>

IssuerReject_uncaught(c) ==
    /\ microtasks = <<>>
    /\ c \in 1..Len(calls)
    /\ calls[c].status = "pending"
    /\ calls' = [calls EXCEPT ![c].status = "rejected", ![c].jwts = EmptyMap]
    /\ UNCHANGED <<ctx, parse, config, now, tokens, purgePlanned, purgeTimers, batches,
                   batch, req, last, microtasks>>

\* invocation c of config.getJwts throws or its promise rejects:
\* getJwtsCallback catches and returns new Map()
IssuerReject(c) ==
    /\ microtasks = <<>>
    /\ c \in 1..Len(calls)
    /\ calls[c].status = "pending"
    /\ calls' = [calls EXCEPT ![c].status = "rejected", ![c].jwts = EmptyMap]
    /\ microtasks' = Waiters(c)
    /\ UNCHANGED <<ctx, parse, config, now, tokens, purgePlanned, purgeTimers, batches,
                   batch, req, last>>

\* a direct caller of getJwt resumes after its await and returns
ResumeGetJwt ==
    /\ microtasks # <<>>
    /\ LET i == Head(microtasks) IN
       /\ req[i].kind = "getJwt"
       /\ req' = [req EXCEPT ![i].pc = "done", ![i].jwt = getJwtReturn(i)]
    /\ microtasks' = Tail(microtasks)
    /\ UNCHANGED <<ctx, parse, config, now, tokens, purgePlanned, purgeTimers, batches,
                   batch, calls, last>>

-----------------------------------------------------------------------------
(* onFetch *)

OnFetch_anyOrigin(url) ==
    /\ microtasks = <<>>
    /\ Len(req) < MaxReq
    /\ LET parsed == parsePath(url.path, config) IN
       IF parsed = Null
       THEN /\ req' = Append(req, [NewReq("fetch", url, <<>>) EXCEPT
                                      !.pc = "passthrough"])
            /\ UNCHANGED <<tokens, batch, batches, calls, last>>
       ELSE LET g == CacheGet(tokens, parsed.eventId, now,
                              config.cacheMinTokenTimeLeft)
                s == getJwtStart(parsed.eventId)
            IN  /\ tokens' = g.tokens
                /\ last' = [op |-> "get", eventId |-> parsed.eventId,
                            found |-> parsed.eventId \in DOMAIN tokens,
                            ret |-> g.ret, threw |-> FALSE]
                /\ IF g.ret # Null
                   THEN /\ req' = Append(req,
                              [NewReq("fetch", url, parsed.eventId) EXCEPT
                                  !.pc = "done", !.jwt = g.ret,
                                  !.dispatch = "bearer"])
                        /\ UNCHANGED <<batch, batches, calls>>
                   ELSE /\ req' = Append(req,
                              [NewReq("fetch", url, parsed.eventId) EXCEPT
                                  !.pc = s.pc, !.batchNo = s.batchNo,
                                  !.call = s.call])
                        /\ batch' = s.batch
                        /\ batches' = s.batches
                        /\ calls' = s.calls
    /\ UNCHANGED <<ctx, parse, config, now, purgePlanned, purgeTimers, microtasks>>

\* the fetch handler up to the first await of the function it passes to
\* event.respondWith, or to its end when it does not await
OnFetch(url) ==
    /\ microtasks = <<>>
    /\ Len(req) < MaxReq
    /\ LET parsed == parsePath(url.path, config) IN
       IF url.origin \notin config.trustedOcOrigins \/ parsed = Null
       THEN /\ req' = Append(req, [NewReq("fetch", url, <<>>) EXCEPT
                                      !.pc = "passthrough"])
            /\ UNCHANGED <<tokens, batch, batches, calls, last>>
       ELSE LET g == CacheGet(tokens, parsed.eventId, now,
                              config.cacheMinTokenTimeLeft)
                s == getJwtStart(parsed.eventId)
            IN  /\ tokens' = g.tokens
                /\ last' = [op |-> "get", eventId |-> parsed.eventId,
                            found |-> parsed.eventId \in DOMAIN tokens,
                            ret |-> g.ret, threw |-> FALSE]
                /\ IF g.ret # Null
                   THEN /\ req' = Append(req,
                              [NewReq("fetch", url, parsed.eventId) EXCEPT
                                  !.pc = "done", !.jwt = g.ret,
                                  !.dispatch = "bearer"])
                        /\ UNCHANGED <<batch, batches, calls>>
                   ELSE /\ req' = Append(req,
                              [NewReq("fetch", url, parsed.eventId) EXCEPT
                                  !.pc = s.pc, !.batchNo = s.batchNo,
                                  !.call = s.call])
                        /\ batch' = s.batch
                        /\ batches' = s.batches
                        /\ calls' = s.calls
    /\ UNCHANGED <<ctx, parse, config, now, purgePlanned, purgeTimers, microtasks>>

ResumeFetch_noAdd ==
    /\ microtasks # <<>>
    /\ LET i == Head(microtasks)
           jwt == getJwtReturn(i)
       IN  /\ req[i].kind = "fetch"
           /\ req' = IF jwt = Null
                     THEN [req EXCEPT ![i].pc = "done", ![i].dispatch = "plain"]
                     ELSE [req EXCEPT ![i].pc = "done", ![i].jwt = jwt,
                                      ![i].dispatch = "bearer"]
           /\ UNCHANGED <<tokens, purgePlanned, purgeTimers, last>>
    /\ microtasks' = Tail(microtasks)
    /\ UNCHANGED <<ctx, parse, config, now, batches, batch, calls>>

ResumeFetch_freshOnly ==
    /\ microtasks # <<>>
    /\ LET i == Head(microtasks)
           jwt == getJwtReturn(i)
           a == CacheAdd(tokens, purgePlanned, purgeTimers, req[i].eventId,
                         jwt, now, config.cacheMinTokenTimeLeft)
       IN  /\ req[i].kind = "fetch"
           /\ IF \/ jwt = Null
                 \/ /\ ~a.threw
                    /\ IsStale([exp |-> expOfJwt(jwt).exp], now,
                               config.cacheMinTokenTimeLeft)
              THEN /\ req' = [req EXCEPT ![i].pc = "done",
                                         ![i].dispatch = "plain"]
                   /\ UNCHANGED <<tokens, purgePlanned, purgeTimers, last>>
              ELSE /\ tokens' = a.tokens
                   /\ last' = [op |-> "add", eventId |-> req[i].eventId,
                               found |-> req[i].eventId \in DOMAIN tokens,
                               ret |-> jwt, threw |-> a.threw]
                   /\ purgePlanned' = a.purgePlanned
                   /\ purgeTimers' = a.purgeTimers
                   /\ req' = IF a.threw
                             THEN [req EXCEPT ![i].pc = "failed", ![i].jwt = jwt]
                             ELSE [req EXCEPT ![i].pc = "done", ![i].jwt = jwt,
                                              ![i].dispatch = "bearer"]
    /\ microtasks' = Tail(microtasks)
    /\ UNCHANGED <<ctx, parse, config, now, batches, batch, calls>>

\* the function passed to event.respondWith resumes after `await ctx.getJwt`
ResumeFetch ==
    /\ microtasks # <<>>
    /\ LET i == Head(microtasks)
           jwt == getJwtReturn(i)
           a == CacheAdd(tokens, purgePlanned, purgeTimers, req[i].eventId,
                         jwt, now, config.cacheMinTokenTimeLeft)
       IN  /\ req[i].kind = "fetch"
           /\ IF jwt = Null
              THEN /\ req' = [req EXCEPT ![i].pc = "done",
                                         ![i].dispatch = "plain"]
                   /\ UNCHANGED <<tokens, purgePlanned, purgeTimers, last>>
              ELSE /\ tokens' = a.tokens
                   /\ last' = [op |-> "add", eventId |-> req[i].eventId,
                               found |-> req[i].eventId \in DOMAIN tokens,
                               ret |-> jwt, threw |-> a.threw]
                   /\ purgePlanned' = a.purgePlanned
                   /\ purgeTimers' = a.purgeTimers
                   /\ req' = IF a.threw
                             THEN [req EXCEPT ![i].pc = "failed", ![i].jwt = jwt]
                             ELSE [req EXCEPT ![i].pc = "done", ![i].jwt = jwt,
                                              ![i].dispatch = "bearer"]
    /\ microtasks' = Tail(microtasks)
    /\ UNCHANGED <<ctx, parse, config, now, batches, batch, calls>>

-----------------------------------------------------------------------------
(* Steps of the cache: direct calls of its methods, its timer, the clock *)

\* op: the method called; found: whether the map had an entry for eventId
\* when it was called; ret: the value returned by get, the token given to add
NoLast == [op |-> "none", eventId |-> <<>>, found |-> FALSE, ret |-> Null,
           threw |-> FALSE]

\* a call of cache.get(eventId)
CacheGetCall(eventId) ==
    LET r == CacheGet(tokens, eventId, now, config.cacheMinTokenTimeLeft) IN
    /\ microtasks = <<>>
    /\ tokens' = r.tokens
    /\ last' = [op |-> "get", eventId |-> eventId,
                found |-> eventId \in DOMAIN tokens, ret |-> r.ret,
                threw |-> FALSE]
    /\ UNCHANGED <<ctx, parse, config, now, purgePlanned, purgeTimers, batches, batch,
                   calls, microtasks, req>>

\* a call of cache.add(eventId, token)
CacheAddCall(eventId, token) ==
    LET r == CacheAdd(tokens, purgePlanned, purgeTimers, eventId, token,
                      now, config.cacheMinTokenTimeLeft) IN
    /\ microtasks = <<>>
    /\ tokens' = r.tokens
    /\ purgePlanned' = r.purgePlanned
    /\ purgeTimers' = r.purgeTimers
    /\ last' = [op |-> "add", eventId |-> eventId,
                found |-> eventId \in DOMAIN tokens, ret |-> token,
                threw |-> r.threw]
    /\ UNCHANGED <<ctx, parse, config, now, batches, batch, calls, microtasks, req>>

PurgeTimerFire_noRearm(k) ==
    /\ microtasks = <<>>
    /\ k \in 1..Len(purgeTimers)
    /\ now >= purgeTimers[k]
    /\ LET rest == RemoveAt(purgeTimers, k)
           toks2 == purgeStaleEntries(tokens, now, config.cacheMinTokenTimeLeft)
           p == [purgePlanned |-> FALSE, purgeTimers |-> rest]
       IN  /\ tokens' = toks2
           /\ purgePlanned' = p.purgePlanned
           /\ purgeTimers' = p.purgeTimers
    /\ UNCHANGED <<ctx, parse, config, now, batches, batch, calls, microtasks, req, last>>

\* the callback planPurge passed to setTimeout
PurgeTimerFire(k) ==
    /\ microtasks = <<>>
    /\ k \in 1..Len(purgeTimers)
    /\ now >= purgeTimers[k]
    /\ LET rest == RemoveAt(purgeTimers, k)
           toks2 == purgeStaleEntries(tokens, now, config.cacheMinTokenTimeLeft)
           p == IF toks2 # EmptyMap
                THEN planPurge(toks2, FALSE, rest, now,
                               config.cacheMinTokenTimeLeft)
                ELSE [purgePlanned |-> FALSE, purgeTimers |-> rest]
       IN  /\ tokens' = toks2
           /\ purgePlanned' = p.purgePlanned
           /\ purgeTimers' = p.purgeTimers
    /\ UNCHANGED <<ctx, parse, config, now, batches, batch, calls, microtasks, req, last>>

\* the wall clock advances by ms between two callbacks
Advance(ms) ==
    /\ microtasks = <<>>
    /\ now + ms <= MaxNow
    /\ now' = now + ms
    /\ UNCHANGED <<ctx, parse, config, tokens, purgePlanned, purgeTimers, batches, batch,
                   calls, microtasks, req, last>>

\* ... by one step
Tick == Advance(TickMs)

\* ... to the last instant at which a token with exp 10 is not stale under
\* the default margin
Leap == Advance(LeapMs)

-----------------------------------------------------------------------------
(* The cache on its own *)

TrustedOrigins == {"https://oc.example.com"}

CacheConfigs ==
    [trustedOcOrigins : {TrustedOrigins},
     pathPrefixes : {DefaultPathPrefixes},
     cacheMinTokenTimeLeft : {0, DefaultCacheMinTokenTimeLeft},
     batchWindow : {DefaultBatchWindow}]

InitCommon ==
    /\ ctx = "listening"
    /\ parse = NoParse
    /\ now = 0
    /\ tokens = EmptyMap
    /\ purgePlanned = FALSE
    /\ purgeTimers = <<>>
    /\ batches = <<>>
    /\ batch = NoBatch
    /\ calls = <<>>
    /\ microtasks = <<>>
    /\ req = <<>>
    /\ last = NoLast

InitCache == config \in CacheConfigs /\ InitCommon

NextCache ==
    \/ \E eventId \in EventIds : CacheGetCall(eventId)
    \/ \E eventId \in EventIds, token \in Jwts : CacheAddCall(eventId, token)
    \/ \E k \in 1..Len(purgeTimers) : PurgeTimerFire(k)
    \/ Tick

SpecCache == InitCache /\ [][NextCache]_vars

\* The cache under the default margin, with a clock that keeps running and
\* timers that fire once due; MaxNow lies beyond the deadline of every timer
\* armed under this margin
InitCacheFair ==
    /\ config \in CacheConfigs
    /\ config.cacheMinTokenTimeLeft = DefaultCacheMinTokenTimeLeft
    /\ InitCommon

FairCache ==
    /\ WF_vars(Tick)
    /\ WF_vars(\E k \in 1..Len(purgeTimers) : PurgeTimerFire(k))

SpecCacheFair == InitCacheFair /\ [][NextCache]_vars /\ FairCache

-----------------------------------------------------------------------------
(* The coalescer on its own: direct calls of getJwt *)

ContextConfigs ==
    [trustedOcOrigins : {TrustedOrigins},
     pathPrefixes : {DefaultPathPrefixes},
     cacheMinTokenTimeLeft : {DefaultCacheMinTokenTimeLeft},
     batchWindow : {0, DefaultBatchWindow}]

InitCoalescer == config \in ContextConfigs /\ InitCommon

NextCoalescer ==
    \/ \E eventId \in EventIds : GetJwtCall(eventId)
    \/ \E b \in 1..MaxReq : BatchTimerFire(b)
    \/ \E c \in 1..MaxReq : \E resp \in Responses(EventIds) : IssuerResolve(c, resp)
    \/ \E c \in 1..MaxReq : IssuerReject(c)
    \/ ResumeGetJwt

SpecCoalescer == InitCoalescer /\ [][NextCoalescer]_vars

\* every armed batch timer fires, every invocation of the issuer settles,
\* every queued continuation runs
FairCoalescer ==
    /\ \A b \in 1..MaxReq : WF_vars(BatchTimerFire(b))
    /\ \A c \in 1..MaxReq :
          WF_vars(IssuerReject(c)
                  \/ \E resp \in Responses(EventIds) : IssuerResolve(c, resp))
    /\ WF_vars(ResumeGetJwt)

SpecCoalescerFair == SpecCoalescer /\ FairCoalescer

-----------------------------------------------------------------------------
(* parsePath on its own *)

\* "/s/", "/s/a/" and a path under the default prefix "/static/"
PrefixS == <<"/", "s", "/">>
PrefixSA == <<"/", "s", "/", "a", "/">>
ExamplePath ==
    <<"/", "s", "t", "a", "t", "i", "c", "/", "o", "r", "g", "A", "/",
      "c", "h", "a", "n", "B", "/", "e", "v", "t", "1", "2", "3", "/",
      "v", "i", "d", "e", "o", ".", "m", "p", "4">>

\* pathPrefixes: one prefix, two prefixes of which one is a prefix of the
\* other in both orders, the default
PathConfigs ==
    [trustedOcOrigins : {TrustedOrigins},
     pathPrefixes : {<<PrefixS>>, <<PrefixS, PrefixSA>>, <<PrefixSA, PrefixS>>,
                     DefaultPathPrefixes},
     cacheMinTokenTimeLeft : {DefaultCacheMinTokenTimeLeft},
     batchWindow : {DefaultBatchWindow}]

\* every string of at most n characters out of "/" and "a"
Strings(n) == UNION {[1..k -> {"/", "a"}] : k \in 0..n}

\* url.pathname: under "/s/", under another directory, the example
Paths ==
    {head \o rest : head \in {PrefixS, <<"/", "t", "/">>},
                    rest \in Strings(MaxPath)}
    \cup {ExamplePath}

InitPath == config \in PathConfigs /\ InitCommon

NextPath == \E path \in Paths : ParsePathCall(path)

SpecPath == InitPath /\ [][NextPath]_vars

-----------------------------------------------------------------------------
(* The construction of the Context *)

\* pathPrefixes of configIn: well-formed ones, and ones with a prefix that
\* lacks the leading or the trailing "/" or is empty
PrefixLists ==
    {<<>>, DefaultPathPrefixes, << <<"/">> >>,
     << <<"/", "s">> >>, << <<"s", "/">> >>, << <<>> >>,
     <<PrefixS, <<"s">> >>}

\* {...DEFAULT_CONFIG, ...configIn}
ConfigIns ==
    [trustedOcOrigins : {TrustedOrigins},
     pathPrefixes : PrefixLists,
     cacheMinTokenTimeLeft :
        {Num(-1), Num(0), Num(DefaultCacheMinTokenTimeLeft)},
     batchWindow :
        {Num(-1), Num(0), Num(DefaultBatchWindow), NaN, Infinity, NegInfinity}]

InitConfig ==
    /\ config \in ConfigIns
    /\ ctx = "none"
    /\ parse = NoParse
    /\ now = 0
    /\ tokens = EmptyMap
    /\ purgePlanned = FALSE
    /\ purgeTimers = <<>>
    /\ batches = <<>>
    /\ batch = NoBatch
    /\ calls = <<>>
    /\ microtasks = <<>>
    /\ req = <<>>
    /\ last = NoLast

NextConfig == NewContext \/ AddFetchListener

SpecConfig == InitConfig /\ [][NextConfig]_vars

-----------------------------------------------------------------------------
(* The whole pipeline: fetch events, the timers, the issuer, the clock *)

\* https://oc.example.com/static/og/c/<eventId>/f and requests onFetch
\* leaves alone: another origin, a path with nothing after the event id
PathOf(eventId) ==
    DefaultPathPrefixes[1] \o <<"o", "g", "/", "c", "/">> \o eventId \o <<"/", "f">>

Urls ==
    {[origin |-> "https://oc.example.com", path |-> PathOf(e)] : e \in EventIds}
    \cup {[origin |-> "https://evil.example.com", path |-> PathOf(<<"x">>)],
          [origin |-> "https://oc.example.com",
           path |-> DefaultPathPrefixes[1] \o <<"o", "g", "/", "c", "/", "x">>]}

Init == config \in ContextConfigs /\ InitCommon

Next ==
    \/ \E url \in Urls : OnFetch(url)
    \/ \E b \in 1..MaxReq : BatchTimerFire(b)
    \/ \E c \in 1..MaxReq : \E resp \in Responses(EventIds) : IssuerResolve(c, resp)
    \/ \E c \in 1..MaxReq : IssuerReject(c)
    \/ ResumeFetch
    \/ \E k \in 1..Len(purgeTimers) : PurgeTimerFire(k)
    \/ Leap

Spec == Init /\ [][Next]_vars

-----------------------------------------------------------------------------
(* Claims about the cache *)

minLeftMs == 1000 * config.cacheMinTokenTimeLeft

\* C5, as stated: cache.get at time t returns the cached token iff an entry
\* exists and exp - minValidity > t, and null in every other case, the case
\* exp - minValidity = t included.
C5_GetFreshStrict ==
    [][\A id \in EventIds : CacheGetCall(id) =>
         last'.ret = IF id \in DOMAIN tokens
                        /\ 1000 * tokens[id].exp - minLeftMs > now
                     THEN tokens[id].token ELSE Null]_vars

\* C5, amended: cache.get at time t returns the cached token iff an entry
\* exists and exp - minValidity >= t; an entry with exp - minValidity = t is
\* still returned; in every other case it returns null.
C5_GetFresh ==
    [][\A id \in EventIds : CacheGetCall(id) =>
         last'.ret = IF id \in DOMAIN tokens
                        /\ 1000 * tokens[id].exp - minLeftMs >= now
                     THEN tokens[id].token ELSE Null]_vars

\* cache.get has returned a token at the very instant exp - minValidity = t
C5_Witness ==
    /\ last.op = "get" /\ last.ret # Null
    /\ last.eventId \in DOMAIN tokens
    /\ 1000 * tokens[last.eventId].exp - minLeftMs = now

\* C6, as stated, with stale as the data model defines it (not fresh, i.e.
\* exp - minValidity <= t): cache.get of an id whose entry is present and
\* stale deletes exactly that entry and returns null.
C6_StaleEvictedAtBoundary ==
    [][\A id \in EventIds :
         CacheGetCall(id) /\ id \in DOMAIN tokens
             /\ 1000 * tokens[id].exp - minLeftMs <= now =>
           /\ last'.ret = Null
           /\ DOMAIN tokens' = DOMAIN tokens \ {id}
           /\ \A k \in DOMAIN tokens' : tokens'[k] = tokens[k]]_vars

\* C6, amended: cache.get of an id whose entry is present and has
\* exp - minValidity < t deletes exactly that entry and returns null; with
\* minValidity = 5 a token whose exp is at most 4 s ahead of the clock stays
\* so and is never returned, and an entry is returned by every lookup up to
\* and including 5 s before its exp and by no lookup after that.
C6_StaleEvicted ==
    [][/\ \A id \in EventIds :
            CacheGetCall(id) /\ id \in DOMAIN tokens
                /\ 1000 * tokens[id].exp - minLeftMs < now =>
              /\ last'.ret = Null
              /\ DOMAIN tokens' = DOMAIN tokens \ {id}
              /\ \A k \in DOMAIN tokens' : tokens'[k] = tokens[k]
       /\ config.cacheMinTokenTimeLeft = 5 =>
            /\ \A id \in DOMAIN tokens :
                  1000 * tokens[id].exp <= now + 4000 =>
                    /\ 1000 * tokens[id].exp <= now' + 4000
                    /\ CacheGetCall(id) => last'.ret = Null
            /\ \A id \in DOMAIN tokens :
                  CacheGetCall(id) =>
                    /\ now <= 1000 * tokens[id].exp - 5000 =>
                          last'.ret = tokens[id].token
                    /\ now > 1000 * tokens[id].exp - 5000 =>
                          last'.ret = Null]_vars

\* with minValidity = 5, a lookup 5.5 s after the start has evicted the entry
\* with exp 10 of one id and has left the entry of another id in the map
C6_Witness ==
    /\ config.cacheMinTokenTimeLeft = 5
    /\ last.op = "get" /\ last.found /\ last.ret = Null
    /\ last.eventId \notin DOMAIN tokens
    /\ tokens # EmptyMap
    /\ now = 5500

\* C7: cache.add for an id that has an entry replaces token and exp only if
\* the new exp is strictly later, and leaves the entry as it was otherwise;
\* while an entry for an id exists its exp never decreases.
C7_MonotonicExpiry ==
    [][/\ \A id \in EventIds, jwt \in GoodJwts :
            CacheAddCall(id, jwt) /\ id \in DOMAIN tokens =>
              tokens'[id] = IF jwt.payload.exp.val > tokens[id].exp
                            THEN [exp |-> jwt.payload.exp.val, token |-> jwt]
                            ELSE tokens[id]
       /\ \A id \in DOMAIN tokens \cap DOMAIN tokens' :
            tokens'[id].exp >= tokens[id].exp]_vars

\* cache.add was given a different token with the same exp as the stored one,
\* and the stored one is still there
C7_Witness ==
    /\ last.op = "add" /\ last.found /\ ~last.threw
    /\ last.eventId \in DOMAIN tokens
    /\ tokens[last.eventId].token # last.ret
    /\ tokens[last.eventId].exp = last.ret.payload.exp.val

\* C9: cache.add of a token whose exp claim is missing or not a number
\* throws and leaves the map, purgePlanned and the purge timer as they were.
C9_BadExpRejected ==
    [][\A id \in EventIds, jwt \in BadJwts :
         CacheAddCall(id, jwt) =>
           /\ last'.threw
           /\ tokens' = tokens
           /\ purgePlanned' = purgePlanned
           /\ purgeTimers' = purgeTimers]_vars

\* cache.add has thrown for an id without an entry while no purge was planned
C9_Witness ==
    /\ last.op = "add" /\ last.threw /\ ~last.found
    /\ last.ret \in BadJwts
    /\ ~purgePlanned

-----------------------------------------------------------------------------
(* Claims about the coalescer *)

\* the callers that joined batch b, the invocations of the issuer made for
\* it, the batches whose timer is pending, the callers served by invocation c
Joined(b) == {i \in 1..Len(req) : req[i].batchNo = b}
CallsFor(b) == {c \in 1..Len(calls) : calls[c].batchNo = b}
TimerPending == {b \in 1..Len(batches) : batches[b].timer}
ServedBy(c) ==
    {i \in 1..Len(req) :
        \/ req[i].call = c
        \/ req[i].batchNo # 0 /\ req[i].batchNo = calls[c].batchNo}
Entry(m, id) == IF id \in DOMAIN m THEN m[id] ELSE Null

\* C1: with batchWindow > 0, a getJwt call made while the timer of a batch
\* is pending joins that batch and one made when no timer is pending opens a
\* new batch; the issuer is not invoked for a batch before its timer fires
\* and exactly once after, with exactly the set of ids of the calls that
\* joined that batch, so the ids of another batch are not in it.
C1_OneCallPerBatch ==
    [][config.batchWindow > 0 =>
         /\ \A id \in EventIds :
              GetJwtCall(id) =>
                /\ calls' = calls
                /\ req'[Len(req) + 1].eventId = id
                /\ IF TimerPending # {}
                   THEN /\ req'[Len(req) + 1].batchNo \in TimerPending
                        /\ Len(batches') = Len(batches)
                   ELSE /\ req'[Len(req) + 1].batchNo = Len(batches) + 1
                        /\ Len(batches') = Len(batches) + 1
                        /\ batches'[Len(batches) + 1].timer
         /\ \A b \in 1..Len(batches') :
              IF batches'[b].timer
              THEN {c \in 1..Len(calls') : calls'[c].batchNo = b} = {}
              ELSE \E c \in 1..Len(calls') :
                     /\ {d \in 1..Len(calls') : calls'[d].batchNo = b} = {c}
                     /\ calls'[c].eventIds =
                          {req'[i].eventId :
                             i \in {j \in 1..Len(req') : req'[j].batchNo = b}}
         /\ \A c \in 1..Len(calls') : calls'[c].batchNo \in 1..Len(batches')
      ]_vars

\* two calls for the two ids joined the first batch and went out in one
\* invocation; a third call, made after the timer fired, went out in a second
C1_Witness ==
    /\ config.batchWindow > 0
    /\ Len(calls) = 2
    /\ calls[1].batchNo = 1 /\ calls[1].eventIds = EventIds
    /\ Cardinality(Joined(1)) = 2
    /\ calls[2].batchNo = 2 /\ Cardinality(Joined(2)) = 1
    /\ calls[2].eventIds # EventIds

\* C2: every caller that joined a batch and has returned got the entry of
\* its own id in the result of the one invocation made for that batch, or
\* null if that has no entry for the id; whichever other invocations are in
\* flight or have completed.
C2_ResolvedFromOwnBatch ==
    \A i \in 1..Len(req) :
        req[i].batchNo # 0 /\ req[i].pc = "done" =>
            \E c \in CallsFor(req[i].batchNo) :
                /\ CallsFor(req[i].batchNo) = {c}
                /\ calls[c].status # "pending"
                /\ req[i].jwt = Entry(calls[c].jwts, req[i].eventId)

\* two batches were in flight at once, the second completed first and a
\* caller of it has its token while the first is still in flight
C2_Witness ==
    /\ Len(calls) = 2
    /\ calls[1].batchNo = 1 /\ calls[1].status = "pending"
    /\ calls[2].batchNo = 2 /\ calls[2].status = "resolved"
    /\ \E i \in Joined(2) : req[i].pc = "done" /\ req[i].jwt # Null
    /\ \E i \in Joined(1) : req[i].pc = "awaitBatch"

\* C3: when an invocation of the issuer errors, every caller it serves
\* returns null once the queued continuations have run and none fails; the
\* batch slot, the batch objects and the other invocations are untouched;
\* callers served by an invocation that resolves get their entry of its Map.
C3_IssuerErrorIsolated ==
    [][/\ \A c \in 1..Len(calls) :
            IssuerReject(c) =>
              /\ batch' = batch /\ batches' = batches
              /\ Len(calls') = Len(calls)
              /\ \A d \in 1..Len(calls) : d # c => calls'[d] = calls[d]
       /\ \A c \in 1..Len(calls') :
            /\ calls'[c].status = "rejected" /\ microtasks' = <<>> =>
                 \A i \in 1..Len(req') :
                    (\/ req'[i].call = c
                     \/ /\ req'[i].batchNo # 0
                        /\ req'[i].batchNo = calls'[c].batchNo) =>
                      req'[i].pc = "done" /\ req'[i].jwt = Null
            /\ calls'[c].status = "resolved" =>
                 \A i \in 1..Len(req') :
                    (/\ \/ req'[i].call = c
                        \/ /\ req'[i].batchNo # 0
                           /\ req'[i].batchNo = calls'[c].batchNo
                     /\ req'[i].pc = "done") =>
                      req'[i].jwt = Entry(calls'[c].jwts, req'[i].eventId)
       /\ \A i \in 1..Len(req') : req'[i].pc # "failed"
      ]_vars

\* the first invocation errored and its callers returned null; a later one
\* resolved and its caller returned a token
C3_Witness ==
    /\ Len(calls) >= 2
    /\ calls[1].status = "rejected"
    /\ ServedBy(1) # {}
    /\ \A i \in ServedBy(1) : req[i].pc = "done" /\ req[i].jwt = Null
    /\ calls[2].status = "resolved"
    /\ \E i \in ServedBy(2) : req[i].pc = "done" /\ req[i].jwt # Null

\* C4: when every batch timer fires and every invocation of the issuer
\* settles, every call of getJwt returns.
\* A caller that has returned and whose id is not in the Map its invocation
\* resolved with has returned null.
C4_EveryCallReturns ==
    /\ \A i \in 1..MaxReq :
          [](Len(req) >= i => <>(Len(req) >= i /\ req[i].pc = "done"))
    /\ [](\A i \in 1..Len(req) : \A c \in 1..Len(calls) :
            (/\ i \in ServedBy(c)
             /\ req[i].pc = "done"
             /\ req[i].eventId \notin DOMAIN calls[c].jwts) =>
                req[i].jwt = Null)

\* a caller whose id the issuer left out of the Map it resolved with has
\* returned null
C4_Witness ==
    \E i \in 1..Len(req) : \E c \in 1..Len(calls) :
        /\ i \in ServedBy(c)
        /\ calls[c].status = "resolved"
        /\ req[i].eventId \notin DOMAIN calls[c].jwts
        /\ calls[c].jwts # EmptyMap
        /\ req[i].pc = "done" /\ req[i].jwt = Null

-----------------------------------------------------------------------------
(* Claims about the pipeline *)

\* the requests of Urls that onFetch handles, and their event
Recognised(url) ==
    url.origin = "https://oc.example.com"
        /\ \E e \in EventIds : url.path = PathOf(e)
EventOf(url) == CHOOSE e \in EventIds : url.path = PathOf(e)

\* C8: a lookup of an id whose entry is fresh returns the stored token, the
\* same as the lookup before it when no insert came between, invokes the
\* issuer zero times (nor joins or opens a batch) and leaves the cache map,
\* purgePlanned and the purge timer as they were.
C8_FreshLookupIdempotent ==
    [][\A url \in Urls :
         (/\ OnFetch(url)
          /\ Recognised(url)
          /\ EventOf(url) \in DOMAIN tokens
          /\ 1000 * tokens[EventOf(url)].exp >= now + minLeftMs) =>
            /\ req'[Len(req) + 1].jwt = tokens[EventOf(url)].token
            /\ req'[Len(req) + 1].dispatch = "bearer"
            /\ (last.op = "get" /\ last.eventId = EventOf(url)
                    /\ last.ret # Null) =>
                  req'[Len(req) + 1].jwt = last.ret
            /\ calls' = calls /\ batches' = batches /\ batch' = batch
            /\ tokens' = tokens
            /\ purgePlanned' = purgePlanned
            /\ purgeTimers' = purgeTimers]_vars

\* two requests in a row were served from the cache with the same token,
\* after the one invocation of the issuer that brought it
C8_Witness ==
    /\ Len(req) = 3 /\ Len(calls) = 1
    /\ req[1].pc = "done" /\ req[1].jwt # Null
    /\ \A i \in {2, 3} :
          /\ req[i].pc = "done" /\ req[i].batchNo = 0 /\ req[i].call = 0
          /\ req[i].eventId = req[1].eventId
          /\ req[i].jwt = req[1].jwt

\* C10: every request with a trusted origin and a recognised path ends in
\* one dispatch, with or without the bearer header, and the function given
\* to respondWith never fails, whatever the issuer does.
C10_AlwaysDispatched ==
    \A i \in 1..Len(req) :
        req[i].kind = "fetch" /\ Recognised(req[i].url) =>
            /\ req[i].pc # "failed"
            /\ req[i].pc \in {"awaitBatch", "awaitCall"}
                  \/ req[i].dispatch \in {"bearer", "plain"}

-----------------------------------------------------------------------------
(* parsePath: the segments it returns *)

\* the configured prefixes that are literal prefixes of the path, by position
MatchingPrefixes(path) ==
    {i \in 1..Len(config.pathPrefixes) :
        /\ Len(config.pathPrefixes[i]) <= Len(path)
        /\ \A j \in 1..Len(config.pathPrefixes[i]) :
              path[j] = config.pathPrefixes[i][j]}

\* the "/"-separated segments of what follows the prefix in the path
SegmentsAfter(path, prefix) ==
    Split(SubSeq(path, Len(prefix) + 1, Len(path)), "/")

\* C14: for a path that starts with a configured prefix, what parsePath
\* returns has as org, channel and eventId the first, second and third
\* "/"-separated segment after the prefix, and as suffix the remaining
\* segments joined with "/"; "/static/orgA/chanB/evt123/video.mp4" under
\* ["/static/"] gives org "orgA", channel "chanB", eventId "evt123" and
\* suffix "video.mp4".
C14_SegmentsAfterPrefix ==
    (parse.called /\ parse.ret # Null) =>
        LET segs == SegmentsAfter(parse.path, parse.ret.prefix) IN
        /\ Len(segs) >= 3
        /\ parse.ret.org = segs[1]
        /\ parse.ret.channel = segs[2]
        /\ parse.ret.eventId = segs[3]
        /\ parse.ret.suffix = Join(SubSeq(segs, 4, Len(segs)), "/")

\* C15: parsePath selects the first configured prefix, in configured order,
\* that is a literal prefix of the path, also when a later one matches too;
\* it returns null when no configured prefix matches and when fewer than
\* three segments follow the selected prefix, and a parsed result for every
\* path with three segments after the prefix.
C15_FirstPrefixThreeSegments ==
    parse.called =>
        LET m == MatchingPrefixes(parse.path) IN
        IF m = {} THEN parse.ret = Null
        ELSE LET prefix == config.pathPrefixes[Min(m)] IN
             IF Len(SegmentsAfter(parse.path, prefix)) < 3
             THEN parse.ret = Null
             ELSE parse.ret # Null /\ parse.ret.prefix = prefix

-----------------------------------------------------------------------------
(* The constructor of Context: the configurations it rejects *)

\* a path prefix that does not both start and end with "/"
BadPrefix(prefix) ==
    \/ Len(prefix) = 0
    \/ prefix[1] # "/"
    \/ prefix[Len(prefix)] # "/"

\* C16: the construction of the Context fails synchronously, before a fetch
\* listener exists, whenever the configuration is invalid: a path prefix
\* that does not both start and end with "/", a negative minimum validity
\* margin (cacheMinTokenTimeLeft), or a batch window that is negative, NaN
\* or infinite; it succeeds for every configuration that violates none.
C16_InvalidConfigRejected ==
    ctx # "none" =>
        (ctx = "threw" <=>
            \/ \E i \in 1..Len(config.pathPrefixes) :
                  BadPrefix(config.pathPrefixes[i])
            \/ /\ config.cacheMinTokenTimeLeft.kind = "finite"
               /\ config.cacheMinTokenTimeLeft.val < 0
            \/ config.batchWindow.kind # "finite"
            \/ config.batchWindow.val < 0)

-----------------------------------------------------------------------------
(* The pipeline: lookup, acquire, insert, dispatch *)

\* what getJwt returns to caller i: the entry for its id in the response of
\* the invocation that serves it
Acquired(i) ==
    LET c == CHOOSE c \in 1..Len(calls) : i \in ServedBy(c)
    IN  Entry(calls[c].jwts, req[i].eventId)

\* C11: for a recognised request onFetch first looks the event id up in the
\* cache; on a hit it attaches the cached token and neither calls getJwt
\* nor invokes the issuer; on a miss it calls getJwt, and when getJwt
\* returns a token it calls cache.add with that token before the request is
\* dispatched with it; when getJwt returns null the cache is not modified
\* and the original request is dispatched without a bearer header.
C11_LookupThenAcquire ==
    [][/\ \A url \in Urls :
            (OnFetch(url) /\ Recognised(url)) =>
               LET id == EventOf(url)
                   n == Len(req) + 1
                   hit == /\ id \in DOMAIN tokens
                          /\ 1000 * tokens[id].exp >= now + minLeftMs
               IN  /\ last'.op = "get" /\ last'.eventId = id
                   /\ req'[n].eventId = id
                   /\ IF hit
                      THEN /\ req'[n].pc = "done"
                           /\ req'[n].dispatch = "bearer"
                           /\ req'[n].jwt = tokens[id].token
                           /\ calls' = calls
                           /\ batches' = batches /\ batch' = batch
                      ELSE /\ req'[n].pc \in {"awaitBatch", "awaitCall"}
                           /\ req'[n].dispatch = "none"
                           /\ IF config.batchWindow > 0
                              THEN /\ batch' # NoBatch
                                   /\ req'[n].batchNo = batch'
                                   /\ id \in batches'[batch'].eventIds
                              ELSE /\ Len(calls') = Len(calls) + 1
                                   /\ calls'[Len(calls')].eventIds = {id}
                                   /\ req'[n].call = Len(calls')
       /\ (microtasks # <<>> /\ req' # req) =>
               LET i == Head(microtasks)
                   id == req[i].eventId
                   jwt == Acquired(i)
               IN  IF jwt = Null
                   THEN /\ tokens' = tokens
                        /\ purgePlanned' = purgePlanned
                        /\ purgeTimers' = purgeTimers
                        /\ req'[i].dispatch = "plain"
                        /\ req'[i].jwt = Null
                   ELSE /\ last'.op = "add"
                        /\ last'.eventId = id
                        /\ last'.ret = jwt
                        /\ jwt \in GoodJwts =>
                              /\ req'[i].dispatch = "bearer"
                              /\ purgePlanned'
                        /\ req'[i].dispatch = "bearer" =>
                              /\ req'[i].jwt = jwt
                              /\ ~last'.threw
                              /\ id \in DOMAIN tokens'
                              /\ \/ tokens'[id].token = jwt
                                 \/ /\ id \in DOMAIN tokens
                                    /\ tokens'[id] = tokens[id]
                                    /\ tokens[id].exp >= jwt.payload.exp.val
      ]_vars

\* one request missed, got a token from getJwt and was dispatched with it,
\* the token is in the cache; one got null and went out plain; one was a hit
C11_Witness ==
    /\ \E i \in 1..Len(req) :
          /\ req[i].pc = "done" /\ req[i].batchNo # 0
          /\ req[i].dispatch = "bearer"
          /\ req[i].eventId \in DOMAIN tokens
          /\ tokens[req[i].eventId].token = req[i].jwt
    /\ \E i \in 1..Len(req) :
          /\ req[i].pc = "done" /\ req[i].batchNo # 0
          /\ req[i].dispatch = "plain"
    /\ \E i \in 1..Len(req) :
          /\ req[i].pc = "done" /\ req[i].batchNo = 0 /\ req[i].call = 0
          /\ req[i].dispatch = "bearer"

\* C12: a request whose origin is not a member of trustedOcOrigins, or whose
\* path parsePath does not recognise, passes through untouched: onFetch
\* gives no replacement response, the issuer is not invoked, no batch is
\* opened or joined, and the cache and its purge timer stay as they were.
C12_PassThroughUntouched ==
    [][\A url \in Urls :
         (/\ OnFetch(url)
          /\ \/ url.origin \notin config.trustedOcOrigins
             \/ parsePath(url.path, config) = Null) =>
            /\ req'[Len(req) + 1].pc = "passthrough"
            /\ req'[Len(req) + 1].dispatch = "none"
            /\ req'[Len(req) + 1].jwt = Null
            /\ req'[Len(req) + 1].batchNo = 0 /\ req'[Len(req) + 1].call = 0
            /\ calls' = calls /\ batches' = batches /\ batch' = batch
            /\ microtasks' = microtasks
            /\ tokens' = tokens /\ last' = last
            /\ purgePlanned' = purgePlanned
            /\ purgeTimers' = purgeTimers]_vars

\* a request from another origin and one with an unrecognised path were
\* left alone while a batch was open
C12_Witness ==
    /\ batch # NoBatch
    /\ \E i \in 1..Len(req) :
          /\ req[i].pc = "passthrough"
          /\ req[i].url.origin \notin config.trustedOcOrigins
    /\ \E i \in 1..Len(req) :
          /\ req[i].pc = "passthrough"
          /\ req[i].url.origin \in config.trustedOcOrigins

-----------------------------------------------------------------------------
(* The coalescer: batching disabled, the slot and the timers *)

\* C13: with batchWindow = 0 every call of getJwt at once invokes the issuer
\* with the singleton set of its id, without a batch and without a timer,
\* and returns the entry of the response for that id, or null; k calls of
\* getJwt make exactly k invocations of the issuer.
C13_NoBatchingImmediate ==
    config.batchWindow = 0 =>
        /\ batches = <<>> /\ batch = NoBatch
        /\ Len(calls) = Len(req)
        /\ \A i \in 1..Len(req) :
              /\ req[i].call = i /\ req[i].batchNo = 0
              /\ calls[i].eventIds = {req[i].eventId}
              /\ calls[i].batchNo = 0
              /\ req[i].pc = "done" =>
                    /\ calls[i].status # "pending"
                    /\ req[i].jwt = Entry(calls[i].jwts, req[i].eventId)

\* three calls made three invocations; one returned the token of its
\* response, one returned null
C13_Witness ==
    /\ config.batchWindow = 0
    /\ Len(req) = 3 /\ Len(calls) = 3
    /\ \E i \in 1..3 : req[i].pc = "done" /\ req[i].jwt # Null
    /\ \E i \in 1..3 : req[i].pc = "done" /\ req[i].jwt = Null

\* C17: when the timer of a batch fires the slot is emptied before the
\* issuer is invoked, and the set handed to the issuer is never modified
\* after the invocation started; a getJwt call arriving while the issuer is
\* in flight opens a new batch.  So the id of every getJwt call is in the
\* argument of exactly one invocation of the issuer, the one of the batch it
\* joined, and no id is dropped.
C17_FiredBatchIsClosed ==
    /\ [](\A c \in 1..Len(calls) :
            calls[c].batchNo # 0 =>
               /\ batch # calls[c].batchNo
               /\ batches[calls[c].batchNo].eventIds = calls[c].eventIds)
    /\ [](\A i \in 1..Len(req) :
            req[i].batchNo # 0 =>
               /\ req[i].eventId \in batches[req[i].batchNo].eventIds
               /\ ~batches[req[i].batchNo].timer =>
                     /\ Cardinality(CallsFor(req[i].batchNo)) = 1
                     /\ \A c \in CallsFor(req[i].batchNo) :
                           req[i].eventId \in calls[c].eventIds)
    /\ [][/\ (Len(calls') = Len(calls) + 1
                 /\ calls'[Len(calls')].batchNo # 0) =>
               /\ batch = calls'[Len(calls')].batchNo
               /\ batch' = NoBatch
               /\ calls'[Len(calls')].eventIds = batches[batch].eventIds
          /\ (/\ Len(req') = Len(req) + 1
              /\ config.batchWindow > 0
              /\ batch = NoBatch
              /\ \E c \in 1..Len(calls) : calls[c].status = "pending") =>
               /\ Len(batches') = Len(batches) + 1
               /\ batch' = Len(batches')
               /\ req'[Len(req')].batchNo = batch'
               /\ batches'[batch'].eventIds = {req'[Len(req')].eventId}
               /\ batches'[batch'].timer
               /\ calls' = calls
         ]_vars

\* the issuer is in flight for batch 1 and a later caller waits in batch 2
C17_Witness ==
    /\ Len(calls) = 1 /\ calls[1].status = "pending" /\ calls[1].batchNo = 1
    /\ batch = 2
    /\ \E i \in 1..Len(req) : req[i].batchNo = 2
    /\ \E i \in 1..Len(req) : req[i].batchNo = 1

\* C18: in every reachable state at most one batch is open and at most one
\* batch timer is pending; the timer of each batch fires exactly once, the
\* issuer is invoked exactly once per batch, and a new batch is opened only
\* when the slot is empty.
C18_OneOpenBatch ==
    /\ [](/\ Cardinality(TimerPending) <= 1
          /\ TimerPending = IF batch = NoBatch THEN {} ELSE {batch}
          /\ \A b \in 1..Len(batches) :
                Cardinality(CallsFor(b)) = IF batches[b].timer THEN 0 ELSE 1)
    /\ [][/\ Len(batches') > Len(batches) =>
                /\ batch = NoBatch
                /\ Len(batches') = Len(batches) + 1
          /\ \A b \in 1..Len(batches) :
                ~batches[b].timer => ~batches'[b].timer
          /\ (Len(calls') > Len(calls) /\ config.batchWindow > 0) =>
                /\ Len(calls') = Len(calls) + 1
                /\ calls'[Len(calls')].batchNo \in TimerPending
                /\ ~batches'[calls'[Len(calls')].batchNo].timer
         ]_vars

\* two batches so far: the timer of the first has fired and made its one
\* invocation, the second is in the slot with its timer pending
C18_Witness ==
    /\ Len(batches) = 2
    /\ ~batches[1].timer /\ Cardinality(CallsFor(1)) = 1
    /\ batches[2].timer /\ batch = 2
    /\ CallsFor(2) = {}

-----------------------------------------------------------------------------
(* The cache: its purge timer *)

\* C19: a cache has at most one purge timer outstanding, over every
\* interleaving of add, get and timer callbacks; an add made while a timer
\* is outstanding arms no second timer; after every add that succeeded a
\* timer is outstanding.
C19_OnePurgeTimer ==
    /\ [](Len(purgeTimers) <= 1)
    /\ [][\A id \in EventIds, jwt \in Jwts :
            CacheAddCall(id, jwt) =>
               /\ Len(purgeTimers) >= 1 => purgeTimers' = purgeTimers
               /\ jwt \in GoodJwts => Len(purgeTimers') = 1]_vars

\* a second entry was added while the timer of the first was outstanding
C19_Witness ==
    /\ last.op = "add" /\ ~last.threw /\ ~last.found
    /\ Cardinality(DOMAIN tokens) = 2
    /\ Len(purgeTimers) = 1

\* the step of a purge timer callback
PurgeStep == \E k \in 1..Len(purgeTimers) : PurgeTimerFire(k)

\* what the claim says of the timer around a sweep: the timer that fired is
\* disarmed, a new one is armed exactly when an entry remains, and with no
\* timer outstanding only an add arms one
SweepRearms ==
    /\ PurgeStep =>
          /\ Len(purgeTimers') = IF tokens' # EmptyMap THEN 1 ELSE 0
          /\ purgePlanned' = (tokens' # EmptyMap)
    /\ (Len(purgeTimers) = 0 /\ Len(purgeTimers') > 0) =>
          \E id \in EventIds, jwt \in GoodJwts : CacheAddCall(id, jwt)

\* C20 as stated, stale meaning exp - minValidity <= t as in the data model
\* of the specification: when the purge timer fires every entry stale at
\* that instant is removed and no fresh one; the timer is then disarmed and
\* a new one armed if and only if an entry remains; after a sweep that
\* empties the cache no timer is outstanding until the next add.
C20_SweepAtBoundary ==
    [][/\ PurgeStep =>
            /\ DOMAIN tokens' =
                  {id \in DOMAIN tokens :
                      1000 * tokens[id].exp > now + minLeftMs}
            /\ \A id \in DOMAIN tokens' : tokens'[id] = tokens[id]
       /\ SweepRearms]_vars

\* C20, amended: the sweep removes exactly the entries with
\* exp - minValidity < t; an entry with exp - minValidity = t stays.
C20_Sweep ==
    [][/\ PurgeStep =>
            /\ DOMAIN tokens' =
                  {id \in DOMAIN tokens :
                      1000 * tokens[id].exp >= now + minLeftMs}
            /\ \A id \in DOMAIN tokens' : tokens'[id] = tokens[id]
       /\ SweepRearms]_vars

\* a sweep removed the entry of the id added last and kept the other entry,
\* and a timer is outstanding again
C20_Witness ==
    /\ last.op = "add" /\ ~last.threw
    /\ last.eventId \notin DOMAIN tokens
    /\ Cardinality(DOMAIN tokens) = 1
    /\ purgePlanned /\ Len(purgeTimers) = 1

\* the earliest expiry over the entries of a non-empty map
EarliestExp(toks) ==
    CHOOSE e \in {toks[k].exp : k \in DOMAIN toks} :
        \A k \in DOMAIN toks : e <= toks[k].exp

\* C21: whenever the purge timer is armed, by an add or by the re-arming
\* after a sweep, its deadline is computed from the earliest expiry over the
\* entries then in the cache: it is due at that expiry - minValidity + the
\* fixed buffer of 500 ms, that is after a delay of
\* 1000 * (earliest expiry - now - minValidity) + 500 ms.
C21_PurgeDeadline ==
    [][(\/ Len(purgeTimers') > Len(purgeTimers)
        \/ PurgeStep /\ Len(purgeTimers') >= 1) =>
          LET due == purgeTimers'[Len(purgeTimers')]
              earliest == EarliestExp(tokens')
          IN  /\ due = 1000 * earliest - minLeftMs + PurgeBufferMs
              /\ due - now
                    = (1000 * earliest - now - minLeftMs) + PurgeBufferMs
      ]_vars

\* two entries with different expiries, the timer due for the earlier one,
\* which replaced an entry of the same id expiring before it
C21_Witness ==
    /\ Cardinality(DOMAIN tokens) = 2
    /\ \E id \in DOMAIN tokens : tokens[id].exp # EarliestExp(tokens)
    /\ last.op = "add" /\ last.found
    /\ last.eventId \in DOMAIN tokens
    /\ tokens[last.eventId].token = last.ret
    /\ tokens[last.eventId].exp = EarliestExp(tokens)
    /\ purgeTimers
          = <<1000 * EarliestExp(tokens) - minLeftMs + PurgeBufferMs>>

\* id has an entry expiring at e that is stale
StaleEntry(id, e) ==
    /\ id \in DOMAIN tokens
    /\ tokens[id].exp = e
    /\ 1000 * e < now + minLeftMs

\* C22: when time advances and every armed purge timer eventually fires,
\* every entry of the cache is eventually removed once it is stale, without
\* a lookup having to be made for it; also an entry that was added while a
\* timer armed for a later expiry was outstanding.
C22_StaleEntriesPurged ==
    \A id \in EventIds, e \in Exps :
        [](StaleEntry(id, e) => <>~StaleEntry(id, e))

\* a stale entry, added last, waits for a timer that was armed for a later
\* expiry and is not due yet
C22_Witness ==
    /\ last.op = "add" /\ ~last.threw
    /\ last.eventId \in DOMAIN tokens
    /\ tokens[last.eventId].token = last.ret
    /\ StaleEntry(last.eventId, tokens[last.eventId].exp)
    /\ Len(purgeTimers) = 1
    /\ purgeTimers[1] > now
    /\ purgeTimers[1] > 1000 * tokens[last.eventId].exp - minLeftMs
                           + PurgeBufferMs

\* C23: in every reachable state, a cache that holds at least one entry has
\* a purge timer outstanding (purgePlanned is true).  The converse need not
\* hold: a timer may be outstanding while the cache is empty, after lookups
\* evicted the last entries.
C23_NonEmptyHasTimer ==
    tokens # EmptyMap => purgePlanned /\ Len(purgeTimers) >= 1

\* a lookup evicted the last entry and the timer is still outstanding
C23_Witness ==
    /\ tokens = EmptyMap
    /\ last.op = "get" /\ last.found /\ last.ret = Null
    /\ purgePlanned /\ Len(purgeTimers) = 1

-----------------------------------------------------------------------------
(* The pipeline: which token goes with which event *)

\* the tokens the responses of the issuer so far contained under key id
IssuedFor(id) ==
    {calls[c].jwts[id] : c \in {d \in 1..Len(calls) : id \in DOMAIN calls[d].jwts}}

\* C24: the cache entry under an id only ever holds a token that a response
\* of the issuer contained under that id, and the bearer token onFetch
\* attaches to a request for an event is such a token; over every
\* interleaving of requests, batches and completions of the issuer, a token
\* issued for one id is never cached under, or attached to a request for,
\* another id.
C24_TokenStaysWithItsId ==
    /\ \A id \in DOMAIN tokens : tokens[id].token \in IssuedFor(id)
    /\ \A i \in 1..Len(req) :
          req[i].jwt # Null => req[i].jwt \in IssuedFor(req[i].eventId)

\* one response carried different tokens for two ids; each request went out
\* with the token of its id and each token is cached under its id
C24_Witness ==
    \E c \in 1..Len(calls) :
        /\ DOMAIN calls[c].jwts = EventIds
        /\ \A id \in EventIds :
              /\ \E other \in EventIds : calls[c].jwts[other] # calls[c].jwts[id]
              /\ id \in DOMAIN tokens
              /\ tokens[id].token = calls[c].jwts[id]
              /\ \E i \in 1..Len(req) :
                    /\ req[i].eventId = id
                    /\ req[i].dispatch = "bearer"
                    /\ req[i].jwt = calls[c].jwts[id]

-----------------------------------------------------------------------------
(* The cache: adds while the timer is outstanding *)

\* C25: an add made while the purge timer is outstanding does not
\* reschedule it: the deadline stays the one computed when the timer was
\* armed, also when the new entry expires earlier than every entry that
\* existed at arming time; the new entry is swept only when that timer
\* fires, unless a lookup evicts it before.
C25_AddKeepsDeadline ==
    [][/\ \A id \in EventIds, jwt \in Jwts :
            (CacheAddCall(id, jwt) /\ Len(purgeTimers) >= 1) =>
               /\ purgeTimers' = purgeTimers
               /\ purgePlanned' = purgePlanned
       /\ \A id \in EventIds :
            (id \in DOMAIN tokens /\ id \notin DOMAIN tokens') =>
               \/ CacheGetCall(id)
               \/ /\ PurgeStep
                  /\ \E k \in 1..Len(purgeTimers) : now >= purgeTimers[k]
      ]_vars

\* the timer is due for the later of two entries; the earlier one, added
\* after the timer was armed, is past the deadline it would have had of its
\* own and still in the cache
C25_Witness ==
    /\ Len(purgeTimers) = 1 /\ purgeTimers[1] > now
    /\ \E id \in DOMAIN tokens, other \in DOMAIN tokens :
          /\ tokens[id].exp < tokens[other].exp
          /\ purgeTimers[1]
                = 1000 * tokens[other].exp - minLeftMs + PurgeBufferMs
          /\ now >= 1000 * tokens[id].exp - minLeftMs + PurgeBufferMs

-----------------------------------------------------------------------------
(* The pipeline: freshness on a hit and on a miss *)

\* what onFetch does on a miss and what becomes of a stale entry: the token
\* getJwt returns is attached and added whatever its expiry; a stale entry
\* is removed by the next lookup of its id and by the next sweep
MissSkipsFreshness ==
    /\ \A url \in Urls :
          (/\ OnFetch(url)
           /\ Recognised(url)
           /\ EventOf(url) \in DOMAIN tokens
           /\ 1000 * tokens[EventOf(url)].exp < now + minLeftMs) =>
              /\ EventOf(url) \notin DOMAIN tokens'
              /\ req'[Len(req) + 1].dispatch = "none"
    /\ (microtasks # <<>> /\ req' # req) =>
          LET i == Head(microtasks)
              id == req[i].eventId
              jwt == Acquired(i)
          IN  jwt \in GoodJwts =>
                 /\ req'[i].dispatch = "bearer"
                 /\ req'[i].jwt = jwt
                 /\ (id \in DOMAIN tokens =>
                        tokens[id].exp < jwt.payload.exp.val) =>
                       tokens'[id] = [exp |-> jwt.payload.exp.val,
                                      token |-> jwt]
    /\ PurgeStep =>
          \A id \in DOMAIN tokens :
              1000 * tokens[id].exp < now + minLeftMs =>
                 id \notin DOMAIN tokens'

====
